---- MODULE Spec2Model ----
(***************************************************************************)
(* Loyalty Competitor Analysis Service (src/main.py).                      *)
(*                                                                         *)
(* One route, POST /generate: the body is validated, a user prompt is      *)
(* built, one blocking chat-completion call is made, the completion text   *)
(* is split at the [JSON_START] / [JSON_END] markers into an analysis and  *)
(* a JSON document, and a response is built.  Texts are sequences of       *)
(* one-character strings, so that find, slicing, strip and the JSON        *)
(* reader are computed on characters as Python computes them.              *)
(***************************************************************************)
EXTENDS Integers, Sequences, FiniteSets, TLC

\* ------------------------------------------------------------------------
\* Bounds of the model
\* ------------------------------------------------------------------------
NReq == 2               \* concurrent requests of SpecConc
MaxChunks == 4          \* chunks concatenated into a completion text
MaxCompetitors == 2     \* competitors of a serialized StructuredResult

Requests == 1..NReq

\* ------------------------------------------------------------------------
\* Literal texts of the source
\* ------------------------------------------------------------------------
start_marker == <<"[", "J", "S", "O", "N", "_", "S", "T", "A", "R", "T", "]">>

end_marker == <<"[", "J", "S", "O", "N", "_", "E", "N", "D", "]">>

PromptHead == <<"P", "l", "e", "a", "s", "e", " ", "a", "n", "a", "l", "y", "z", "e", " ", "t", "h", "e", " ", "c", "o", "m", "p", "e", "t", "i", "t", "o", "r", "s", " ", "a", "n", "d", " ", "l", "o", "y", "a", "l", "t", "y", " ", "p", "r", "o", "g", "r", "a", "m", "s", " ", "f", "o", "r", " ">>

PromptTail == <<".">>

FeedbackSep == <<"\n", "\n">>

FeedbackClause == <<"I", "n", "c", "o", "r", "p", "o", "r", "a", "t", "e", " ", "t", "h", "i", "s", " ", "f", "e", "e", "d", "b", "a", "c", "k", " ", "i", "n", " ", "y", "o", "u", "r", " ", "a", "n", "a", "l", "y", "s", "i", "s", ":", " ">>

K_top_competitors == <<"t", "o", "p", "_", "c", "o", "m", "p", "e", "t", "i", "t", "o", "r", "s">>

K_name == <<"n", "a", "m", "e">>

K_strengths == <<"s", "t", "r", "e", "n", "g", "t", "h", "s">>

K_weaknesses == <<"w", "e", "a", "k", "n", "e", "s", "s", "e", "s">>

K_loyalty_program_features == <<"l", "o", "y", "a", "l", "t", "y", "_", "p", "r", "o", "g", "r", "a", "m", "_", "f", "e", "a", "t", "u", "r", "e", "s">>

\* ------------------------------------------------------------------------
\* Python str operations, on sequences of characters (indices are 0-based
\* as in Python)
\* ------------------------------------------------------------------------
PyWs == {" ", "\t", "\n", "\r"}

\* s[i:i+1]
At(s, i) == IF i >= 0 /\ i < Len(s) THEN s[i + 1] ELSE ""

\* s[a:b], with Python's treatment of negative and out-of-range indices
PySlice(s, a, b) ==
  LET n  == Len(s)
      a1 == IF a < 0 THEN (IF a + n < 0 THEN 0 ELSE a + n) ELSE (IF a > n THEN n ELSE a)
      b1 == IF b < 0 THEN (IF b + n < 0 THEN 0 ELSE b + n) ELSE (IF b > n THEN n ELSE b)
  IN  IF a1 >= b1 THEN <<>> ELSE SubSeq(s, a1 + 1, b1)

StartsAt(s, sub, i) ==
  /\ i + Len(sub) <= Len(s)
  /\ \A k \in 1..Len(sub) : s[i + k] = sub[k]

\* s.find(sub): the lowest index where sub occurs, -1 when it does not
find(s, sub) ==
  LET hits == {i \in 0..(Len(s) - Len(sub)) : StartsAt(s, sub, i)}
  IN  IF hits = {} THEN -1 ELSE CHOOSE i \in hits : \A j \in hits : i <= j

Contains(s, sub) == find(s, sub) # -1

EndsWith(s, sub) == Len(sub) <= Len(s) /\ StartsAt(s, sub, Len(s) - Len(sub))

\* s.strip()
strip(s) ==
  LET keep == {i \in 1..Len(s) : s[i] \notin PyWs}
  IN  IF keep = {} THEN <<>>
      ELSE SubSeq(s, CHOOSE i \in keep : \A j \in keep : i <= j,
                     CHOOSE i \in keep : \A j \in keep : i >= j)

\* ------------------------------------------------------------------------
\* JSON documents.  An object is the ordered sequence of its <<key, value>>
\* pairs (a Python dict keeps insertion order), an array the sequence of
\* its elements, a string its characters.
\* ------------------------------------------------------------------------
JNull == [kind |-> "null", val |-> <<>>]

JBool(b) == [kind |-> IF b THEN "true" ELSE "false", val |-> <<>>]

JNum(n) == [kind |-> "number", val |-> n]

JStr(s) == [kind |-> "string", val |-> s]

JArr(items) == [kind |-> "array", val |-> items]

JObj(pairs) == [kind |-> "object", val |-> pairs]

\* d[k] = v on an ordered dict: a repeated key keeps its place, takes the new value
DictSet(pairs, k, v) ==
  IF \E i \in 1..Len(pairs) : pairs[i][1] = k
  THEN [i \in 1..Len(pairs) |-> IF pairs[i][1] = k THEN <<k, v>> ELSE pairs[i]]
  ELSE Append(pairs, <<k, v>>)

HasKey(obj, k) == \E i \in 1..Len(obj.val) : obj.val[i][1] = k

Get(obj, k) == obj.val[CHOOSE i \in 1..Len(obj.val) : obj.val[i][1] = k][2]

\* ------------------------------------------------------------------------
\* json.loads (json.decoder / json.scanner), for documents built of objects,
\* arrays, strings without escape sequences, non-negative integers and the
\* literals true, false, null.  A result is the value and the index after
\* it, or the JSONDecodeError message and its character index.
\* ------------------------------------------------------------------------
Ok(v, p) == [ok |-> TRUE, val |-> v, msg |-> "", pos |-> p]

Err(m, p) == [ok |-> FALSE, val |-> JNull, msg |-> m, pos |-> p]

Digits == {"0", "1", "2", "3", "4", "5", "6", "7", "8", "9"}

DigitVal(c) ==
  CASE c = "0" -> 0 [] c = "1" -> 1 [] c = "2" -> 2 [] c = "3" -> 3 [] c = "4" -> 4
    [] c = "5" -> 5 [] c = "6" -> 6 [] c = "7" -> 7 [] c = "8" -> 8 [] c = "9" -> 9

RECURSIVE SkipWs(_, _)
SkipWs(s, idx) == IF At(s, idx) \in PyWs THEN SkipWs(s, idx + 1) ELSE idx

\* index of the character that ends a string body: a quote or a control
\* character; -1 when the text ends first
RECURSIVE StrEnd(_, _)
StrEnd(s, i) ==
  IF i >= Len(s) THEN -1
  ELSE IF s[i + 1] \in {"\"", "\n", "\t", "\r"} THEN i
  ELSE StrEnd(s, i + 1)

\* py_scanstring(s, end): end is the index after the opening quote
py_scanstring(s, end) ==
  LET j == StrEnd(s, end)
  IN  IF j = -1 THEN Err("Unterminated string starting at", end - 1)
      ELSE IF s[j + 1] = "\"" THEN Ok(JStr(PySlice(s, end, j)), j + 1)
      ELSE Err("Invalid control character at", j)

\* the integer 0 | [1-9][0-9]* matched at idx
RECURSIVE NumEnd(_, _)
NumEnd(s, i) == IF At(s, i) \in Digits THEN NumEnd(s, i + 1) ELSE i

RECURSIVE NumVal(_, _, _, _)
NumVal(s, i, e, acc) == IF i >= e THEN acc ELSE NumVal(s, i + 1, e, acc * 10 + DigitVal(s[i + 1]))

match_number(s, idx) ==
  LET e == IF At(s, idx) = "0" THEN idx + 1 ELSE NumEnd(s, idx)
  IN  Ok(JNum(NumVal(s, idx, e, 0)), e)

RECURSIVE scan_once(_, _)
RECURSIVE JSONArrayItems(_, _, _)
RECURSIVE JSONObjectItems(_, _, _)

\* JSONArray after the value r, at the index e1 that follows its whitespace
JSONArrayNext(s, acc, r, e1) ==
  IF At(s, e1) = "]" THEN Ok(JArr(Append(acc, r.val)), e1 + 1)
  ELSE IF At(s, e1) # "," THEN Err("Expecting ',' delimiter", e1)
  ELSE JSONArrayItems(s, SkipWs(s, e1 + 1), Append(acc, r.val))

\* JSONArray with the outcome r of scanning a value
JSONArrayValue(s, acc, r) == IF ~r.ok THEN r ELSE JSONArrayNext(s, acc, r, SkipWs(s, r.pos))

\* JSONArray's loop: idx is where the next value starts
JSONArrayItems(s, idx, acc) == JSONArrayValue(s, acc, scan_once(s, idx))

\* JSONArray(s, end): end is the index after "["
JSONArray(s, end) ==
  LET e == SkipWs(s, end)
  IN  IF At(s, e) = "]" THEN Ok(JArr(<<>>), e + 1) ELSE JSONArrayItems(s, e, <<>>)

\* JSONObject after a "," and its whitespace: a key must open at e3
JSONObjectKey(s, acc, e3) ==
  IF At(s, e3) # "\"" THEN Err("Expecting property name enclosed in double quotes", e3)
  ELSE JSONObjectItems(s, e3 + 1, acc)

\* JSONObject after a pair, at the index e2 that follows its whitespace
JSONObjectNext(s, acc, e2) ==
  IF At(s, e2) = "}" THEN Ok(JObj(acc), e2 + 1)
  ELSE IF At(s, e2) # "," THEN Err("Expecting ',' delimiter", e2)
  ELSE JSONObjectKey(s, acc, SkipWs(s, e2 + 1))

\* JSONObject with the key k and the outcome v of scanning its value
JSONObjectValue(s, acc, k, v) ==
  IF ~v.ok THEN v ELSE JSONObjectNext(s, DictSet(acc, k.val.val, v.val), SkipWs(s, v.pos))

\* JSONObject after the key k, at the index e1 that follows its whitespace
JSONObjectColon(s, acc, k, e1) ==
  IF At(s, e1) # ":" THEN Err("Expecting ':' delimiter", e1)
  ELSE JSONObjectValue(s, acc, k, scan_once(s, SkipWs(s, e1 + 1)))

\* JSONObject with the outcome k of scanning a key
JSONObjectPair(s, acc, k) == IF ~k.ok THEN k ELSE JSONObjectColon(s, acc, k, SkipWs(s, k.pos))

\* JSONObject's loop: idx is the index after the key's opening quote
JSONObjectItems(s, idx, acc) == JSONObjectPair(s, acc, py_scanstring(s, idx))

\* JSONObject(s, end): end is the index after "{"
JSONObject(s, end) ==
  LET e == SkipWs(s, end)
  IN  IF At(s, e) = "}" THEN Ok(JObj(<<>>), e + 1)
      ELSE IF At(s, e) # "\"" THEN Err("Expecting property name enclosed in double quotes", e)
      ELSE JSONObjectItems(s, e + 1, <<>>)

scan_once(s, idx) ==
  LET c == At(s, idx)
  IN  CASE c = "\"" -> py_scanstring(s, idx + 1)
        [] c = "{" -> JSONObject(s, idx + 1)
        [] c = "[" -> JSONArray(s, idx + 1)
        [] c = "n" /\ PySlice(s, idx, idx + 4) = <<"n", "u", "l", "l">> -> Ok(JNull, idx + 4)
        [] c = "t" /\ PySlice(s, idx, idx + 4) = <<"t", "r", "u", "e">> -> Ok(JBool(TRUE), idx + 4)
        [] c = "f" /\ PySlice(s, idx, idx + 5) = <<"f", "a", "l", "s", "e">> -> Ok(JBool(FALSE), idx + 5)
        [] c \in Digits -> match_number(s, idx)
        [] OTHER -> Err("Expecting value", idx)

\* JSONDecoder.decode with the outcome r of raw_decode: only whitespace may follow
decode(s, r) ==
  IF ~r.ok THEN r
  ELSE IF SkipWs(s, r.pos) # Len(s) THEN Err("Extra data", SkipWs(s, r.pos))
  ELSE r

\* json.loads(s)
loads(s) == decode(s, scan_once(s, SkipWs(s, 0)))

\* ------------------------------------------------------------------------
\* json.dumps with its default separators ", " and ": ", the serialization
\* of a StructuredResult into a completion text
\* ------------------------------------------------------------------------
RECURSIVE dumps(_)
RECURSIVE dumpsItems(_, _)
RECURSIVE dumpsPairs(_, _)

dumpsItems(items, i) ==
  IF i > Len(items) THEN <<>>
  ELSE (IF i > 1 THEN <<",", " ">> ELSE <<>>) \o dumps(items[i]) \o dumpsItems(items, i + 1)

dumpsPairs(pairs, i) ==
  IF i > Len(pairs) THEN <<>>
  ELSE (IF i > 1 THEN <<",", " ">> ELSE <<>>) \o <<"\"">> \o pairs[i][1] \o <<"\"", ":", " ">>
       \o dumps(pairs[i][2]) \o dumpsPairs(pairs, i + 1)

dumps(v) ==
  CASE v.kind = "string" -> <<"\"">> \o v.val \o <<"\"">>
    [] v.kind = "array"  -> <<"[">> \o dumpsItems(v.val, 1) \o <<"]">>
    [] v.kind = "object" -> <<"{">> \o dumpsPairs(v.val, 1) \o <<"}">>
    [] v.kind = "null"   -> <<"n", "u", "l", "l">>
    [] v.kind = "true"   -> <<"t", "r", "u", "e">>
    [] v.kind = "false"  -> <<"f", "a", "l", "s", "e">>

\* ------------------------------------------------------------------------
\* Request and response models
\* ------------------------------------------------------------------------
NoDetail == [what |-> "", msg |-> "", pos |-> 0]

\* faulty variant: company_name is not required and not typed
CompetitorAnalysisRequestLax(b, v1) ==
  [ok |-> TRUE, company_name |-> b.company_name.val, current_prompt_data |-> b.current_prompt_data]

\* class CompetitorAnalysisRequest, as FastAPI validates the body against
\* it.  company_name: str is required; a JSON null is never a str; a JSON
\* number is coerced to its digits by pydantic 1 and rejected by pydantic 2
\* (v1 tells which one is installed); the empty string is a str.
CompetitorAnalysisRequest(b, v1) ==
  IF b.company_name.kind = "str" \/ (b.company_name.kind = "number" /\ v1)
  THEN [ok |-> TRUE, company_name |-> b.company_name.val,
        current_prompt_data |-> b.current_prompt_data]
  ELSE [ok |-> FALSE, company_name |-> <<>>, current_prompt_data |-> b.current_prompt_data]

\* FastAPI's answer to a body that fails validation
RequestValidationResponse ==
  [status |-> 422, keys |-> {"detail"}, generated_output |-> <<>>, structured_data |-> JNull,
   detail |-> [what |-> "RequestValidationError", msg |-> "", pos |-> 0]]

\* class CompetitorAnalysisResponse: generated_output: str, structured_data: Dict
CompetitorAnalysisResponse(generated_output, structured_data) ==
  IF structured_data.kind = "object"
  THEN [ok |-> TRUE, generated_output |-> generated_output, structured_data |-> structured_data,
        detail |-> NoDetail]
  ELSE [ok |-> FALSE, generated_output |-> <<>>, structured_data |-> JNull,
        detail |-> [what |-> "ValidationError: structured_data", msg |-> structured_data.kind, pos |-> 0]]

\* class TopCompetitor: name: str and three List[str]
IsStrList(v) ==
  /\ v.kind = "array"
  /\ \A i \in 1..Len(v.val) : v.val[i].kind = "string"

TopCompetitor(v) ==
  /\ v.kind = "object"
  /\ HasKey(v, K_name) /\ Get(v, K_name).kind = "string"
  /\ HasKey(v, K_strengths) /\ IsStrList(Get(v, K_strengths))
  /\ HasKey(v, K_weaknesses) /\ IsStrList(Get(v, K_weaknesses))
  /\ HasKey(v, K_loyalty_program_features) /\ IsStrList(Get(v, K_loyalty_program_features))

\* the schema the system prompt mandates: {"top_competitors": [TopCompetitor, ...]}
ConformsToSchema(v) ==
  /\ v.kind = "object"
  /\ HasKey(v, K_top_competitors)
  /\ Get(v, K_top_competitors).kind = "array"
  /\ \A i \in 1..Len(Get(v, K_top_competitors).val) : TopCompetitor(Get(v, K_top_competitors).val[i])

\* ------------------------------------------------------------------------
\* Prompt builder
\* ------------------------------------------------------------------------
\* faulty variant: the clause is appended whatever the feedback
construct_user_prompt_always(company_name, feedback) ==
  PromptHead \o company_name \o PromptTail \o FeedbackSep \o FeedbackClause \o feedback

construct_user_prompt(company_name, feedback) ==
  LET prompt == PromptHead \o company_name \o PromptTail
  IN  IF feedback # <<>> THEN prompt \o FeedbackSep \o FeedbackClause \o feedback ELSE prompt

\* ------------------------------------------------------------------------
\* Response extractor
\* ------------------------------------------------------------------------
\* the try / except of extract_json_from_text around the outcome r of
\* json.loads: its value, or HTTPException(500, "Failed to parse ...: {e}")
loads_or_raise(r) ==
  IF r.ok THEN [ok |-> TRUE, val |-> r.val, detail |-> NoDetail]
  ELSE [ok |-> FALSE, val |-> JNull,
        detail |-> [what |-> "Failed to parse structured data from response",
                    msg |-> r.msg, pos |-> r.pos]]

\* faulty variant: the slice starts at the marker instead of after it
extract_json_from_text_at_marker(text) ==
  loads_or_raise(loads(strip(PySlice(text, find(text, start_marker), find(text, end_marker)))))

\* extract_json_from_text; find's -1 is used as an index like any other result
extract_json_from_text(text) ==
  loads_or_raise(loads(strip(PySlice(text, find(text, start_marker) + Len(start_marker),
                                     find(text, end_marker)))))

\* the return of generate_competitor_analysis, or the HTTPException(500,
\* str(e)) its except clause raises for the extractor's HTTPException
analysis_or_raise(analysis, structured_data) ==
  IF structured_data.ok
  THEN [ok |-> TRUE, analysis |-> analysis, structured_data |-> structured_data.val,
        detail |-> NoDetail]
  ELSE [ok |-> FALSE, analysis |-> <<>>, structured_data |-> JNull,
        detail |-> [what |-> "500: Failed to parse structured data from response",
                    msg |-> structured_data.detail.msg, pos |-> structured_data.detail.pos]]

\* generate_competitor_analysis from the outcome c of the completion call
\* on: an exception of the client is raised as HTTPException(500, str(e))
generate_competitor_analysis(c) ==
  IF c.kind = "error"
  THEN [ok |-> FALSE, analysis |-> <<>>, structured_data |-> JNull,
        detail |-> [what |-> "upstream", msg |-> "", pos |-> 0]]
  ELSE analysis_or_raise(strip(PySlice(c.text, 0, find(c.text, start_marker))),
                         extract_json_from_text(c.text))

\* ------------------------------------------------------------------------
\* Responses
\* ------------------------------------------------------------------------
\* JSONResponse(status_code=500, content={"detail": str(exc)}), which is also
\* what FastAPI answers to an HTTPException(500, detail)
global_exception_handler(exc) ==
  [status |-> 500, keys |-> {"detail"}, generated_output |-> <<>>, structured_data |-> JNull,
   detail |-> exc]

\* faulty variant: a failed extraction is answered with the analysis alone
respond_partial(g) ==
  [status |-> 200,
   keys |-> IF g.ok THEN {"generated_output", "structured_data"} ELSE {"generated_output"},
   generated_output |-> g.analysis, structured_data |-> g.structured_data, detail |-> NoDetail]

\* generate_analysis with the outcome g of generate_competitor_analysis: an
\* exception goes to the handlers, a return to CompetitorAnalysisResponse
respond(g) ==
  LET response == CompetitorAnalysisResponse(g.analysis, g.structured_data)
  IN  IF ~g.ok THEN global_exception_handler(g.detail)
      ELSE IF ~response.ok THEN global_exception_handler(response.detail)
      ELSE [status |-> 200, keys |-> {"generated_output", "structured_data"},
            generated_output |-> response.generated_output,
            structured_data |-> response.structured_data, detail |-> NoDetail]

\* generate_analysis from the return of the completion call on
generate_analysis(c) == respond(generate_competitor_analysis(c))

\* ------------------------------------------------------------------------
\* Inputs: request bodies and outcomes of the completion call
\* ------------------------------------------------------------------------
Acme == <<"A", "c", "m", "e">>

AcmeLeads == <<"A", "c", "m", "e", " ", "l", "e", "a", "d", "s", ".">>

BeBrief == <<"B", "e", " ", "b", "r", "i", "e", "f">>

CompanyNames ==
  { [kind |-> "missing", val |-> <<>>],
    [kind |-> "null", val |-> <<>>],
    [kind |-> "number", val |-> <<"7">>],
    [kind |-> "str", val |-> <<>>],
    [kind |-> "str", val |-> Acme],
    [kind |-> "str", val |-> FeedbackClause] }

PromptData ==
  { [present |-> FALSE, user_feedback |-> <<>>],
    [present |-> TRUE, user_feedback |-> <<>>],
    [present |-> TRUE, user_feedback |-> BeBrief] }

Bodies == [company_name : CompanyNames, current_prompt_data : PromptData]

\* completion texts made of up to MaxChunks chunks
Chunks == {start_marker, end_marker, AcmeLeads, <<"{", "}">>, <<" ">>}

RECURSIVE ChunkTexts(_)
ChunkTexts(n) ==
  IF n = 0 THEN {<<>>}
  ELSE LET shorter == ChunkTexts(n - 1)
       IN  shorter \cup {t \o c : t \in shorter, c \in Chunks}

\* StructuredResult values and the texts that precede the markers
Competitor(name, strengths, weaknesses, features) ==
  JObj(<< <<K_name, JStr(name)>>, <<K_strengths, JArr(strengths)>>,
          <<K_weaknesses, JArr(weaknesses)>>, <<K_loyalty_program_features, JArr(features)>> >>)

CompetitorPool ==
  { Competitor(<<"A">>, <<JStr(<<"b">>), JStr(<<"c">>)>>, <<>>, <<JStr(<<"d">>)>>),
    Competitor(<<"B">>, <<JStr(start_marker)>>, <<JStr(<<"c">>), JStr(<<"b">>)>>, <<>>),
    Competitor(end_marker, <<>>, <<>>, <<JStr(<<"d">>)>>) }

RECURSIVE CompetitorLists(_)
CompetitorLists(n) ==
  IF n = 0 THEN {<<>>}
  ELSE LET shorter == CompetitorLists(n - 1)
       IN  shorter \cup {Append(l, c) : l \in shorter, c \in CompetitorPool}

StructuredResults == {JObj(<< <<K_top_competitors, JArr(l)>> >>) : l \in CompetitorLists(MaxCompetitors)}

Analyses ==
  { <<>>, AcmeLeads, <<" ">> \o AcmeLeads \o <<"\n">>,
    AcmeLeads \o end_marker, start_marker \o AcmeLeads }

\* analysis + "[JSON_START]" + json.dumps(S) + "[JSON_END]"
RoundTripTable ==
  { [analysis |-> a, result |-> S, text |-> a \o start_marker \o dumps(S) \o end_marker] :
      a \in Analyses, S \in StructuredResults }

\* single texts: a trailing comma, documents that are not objects, a
\* document given on lines of its own, top_competitors of the wrong type
FixedTexts ==
  { start_marker \o <<"[", "1", ",", "]">> \o end_marker,
    start_marker \o <<"[", "1", "]">> \o end_marker,
    start_marker \o <<"1", "2">> \o end_marker,
    AcmeLeads \o <<"\n">> \o start_marker \o <<"\n", "{", "\"", "a", "\"", ":", " ", "n", "u", "l", "l", "}", "\n">> \o end_marker,
    start_marker \o <<"{", "\"">> \o K_top_competitors \o <<"\"", ":", "1", "}">> \o end_marker }

Texts == ChunkTexts(MaxChunks) \cup {e.text : e \in RoundTripTable} \cup FixedTexts

UpstreamError == [kind |-> "error", text |-> <<>>]

Completions == {[kind |-> "text", text |-> t] : t \in Texts} \cup {UpstreamError}

\* the completions of the specification with concurrent requests
ConcCompletions ==
  { [kind |-> "text", text |-> end_marker \o start_marker],
    [kind |-> "text", text |-> start_marker \o end_marker],
    [kind |-> "text", text |-> start_marker \o <<"{", "}">> \o end_marker],
    UpstreamError }

ConcBodies ==
  { b \in Bodies : /\ b.company_name \in {[kind |-> "missing", val |-> <<>>], [kind |-> "str", val |-> Acme]}
                   /\ b.current_prompt_data.user_feedback = <<>> }

\* ------------------------------------------------------------------------
\* State
\* ------------------------------------------------------------------------
VARIABLES
  pydantic_v1,   \* the installed pydantic coerces numbers to str
  pc,            \* per request: "idle", "received", "validated", "calling", "done"
  body,          \* per request: the JSON body posted
  request,       \* per request: the validated CompetitorAnalysisRequest
  feedback,      \* per request: the feedback the handler passes on
  prompt,        \* per request: the user prompt sent to the completion API
  calls,         \* per request: outbound completion calls started
  completion,    \* per request: the outcome of the completion call
  resp           \* per request: the HTTP response

vars == <<pydantic_v1, pc, body, request, feedback, prompt, calls, completion, resp>>

NoBody == [company_name |-> [kind |-> "missing", val |-> <<>>],
           current_prompt_data |-> [present |-> FALSE, user_feedback |-> <<>>]]

NoRequest == [ok |-> FALSE, company_name |-> <<>>,
              current_prompt_data |-> [present |-> FALSE, user_feedback |-> <<>>]]

NoResponse == [status |-> 0, keys |-> {}, generated_output |-> <<>>, structured_data |-> JNull,
               detail |-> NoDetail]

Init ==
  /\ pydantic_v1 \in BOOLEAN
  /\ pc = [r \in Requests |-> "idle"]
  /\ body = [r \in Requests |-> NoBody]
  /\ request = [r \in Requests |-> NoRequest]
  /\ feedback = [r \in Requests |-> <<>>]
  /\ prompt = [r \in Requests |-> <<>>]
  /\ calls = [r \in Requests |-> 0]
  /\ completion = [r \in Requests |-> UpstreamError]
  /\ resp = [r \in Requests |-> NoResponse]

\* The handler is a coroutine on the single event loop and the completion
\* call is the synchronous client's: from the call to its return the loop's
\* thread is inside it and runs no other coroutine.
LoopBlocked == \E r \in Requests : pc[r] = "calling"

\* a client sends POST /generate
Post(r, b) ==
  /\ pc[r] = "idle"
  /\ pc' = [pc EXCEPT ![r] = "received"]
  /\ body' = [body EXCEPT ![r] = b]
  /\ UNCHANGED <<pydantic_v1, request, feedback, prompt, calls, completion, resp>>

\* the body is validated against CompetitorAnalysisRequest; a body that
\* fails is answered without the handler being called
Validate(r) ==
  /\ pc[r] = "received"
  /\ ~LoopBlocked
  /\ LET v == CompetitorAnalysisRequest(body[r], pydantic_v1)
     IN  /\ request' = [request EXCEPT ![r] = v]
         /\ pc' = [pc EXCEPT ![r] = IF v.ok THEN "validated" ELSE "done"]
         /\ resp' = [resp EXCEPT ![r] = IF v.ok THEN @ ELSE RequestValidationResponse]
  /\ UNCHANGED <<pydantic_v1, body, feedback, prompt, calls, completion>>

\* request.current_prompt_data.user_feedback if request.current_prompt_data else ""
HandlerFeedback(req) ==
  IF req.current_prompt_data.present THEN req.current_prompt_data.user_feedback ELSE <<>>

\* generate_analysis up to the completion call: the feedback is taken from
\* the request, the prompts are built and the call is started
StartCall(r) ==
  /\ pc[r] = "validated"
  /\ ~LoopBlocked
  /\ feedback' = [feedback EXCEPT ![r] = HandlerFeedback(request[r])]
  /\ prompt' = [prompt EXCEPT ![r] =
                  construct_user_prompt(request[r].company_name, HandlerFeedback(request[r]))]
  /\ calls' = [calls EXCEPT ![r] = @ + 1]
  /\ pc' = [pc EXCEPT ![r] = "calling"]
  /\ UNCHANGED <<pydantic_v1, body, request, completion, resp>>

\* the completion call returns c (a text or an exception) and the handler
\* runs to its response
CallReturn(r, c) ==
  /\ pc[r] = "calling"
  /\ completion' = [completion EXCEPT ![r] = c]
  /\ resp' = [resp EXCEPT ![r] = generate_analysis(c)]
  /\ pc' = [pc EXCEPT ![r] = "done"]
  /\ UNCHANGED <<pydantic_v1, body, request, feedback, prompt, calls>>

\* one request, every body and every completion
Next ==
  \/ \E b \in Bodies : Post(1, b)
  \/ Validate(1)
  \/ StartCall(1)
  \/ \E c \in Completions : CallReturn(1, c)

Spec == Init /\ [][Next]_vars

\* concurrent requests
NextConc ==
  \/ \E r \in Requests, b \in ConcBodies : Post(r, b)
  \/ \E r \in Requests : Validate(r)
  \/ \E r \in Requests : StartCall(r)
  \/ \E r \in Requests, c \in ConcCompletions : CallReturn(r, c)

SpecConc == Init /\ [][NextConc]_vars

\* ------------------------------------------------------------------------
\* Properties
\* ------------------------------------------------------------------------
Answered(r) == pc[r] = "done" /\ calls[r] > 0

GotText(r) == Answered(r) /\ completion[r].kind = "text"

\* [JSON_START] is present and the first [JSON_END] lies after it
WellOrdered(t) == find(t, start_marker) # -1 /\ find(t, end_marker) > find(t, start_marker)

\* the text the extractor hands to json.loads
Between(t) ==
  strip(PySlice(t, find(t, start_marker) + Len(start_marker), find(t, end_marker)))

MarkerFree(t) == ~Contains(t, start_marker) /\ ~Contains(t, end_marker)

MarkerFreeRoundTrips ==
  {e \in RoundTripTable : MarkerFree(e.analysis) /\ ~Contains(dumps(e.result), end_marker)}

RoundTrips(r, e) ==
  (GotText(r) /\ completion[r].text = e.text)
    => /\ resp[r].status = 200
       /\ resp[r].generated_output = strip(e.analysis)
       /\ resp[r].structured_data = e.result

\* C1, as stated: for any StructuredResult S and any preceding text, the
\* completion analysis + [JSON_START] + dumps(S) + [JSON_END] is answered
\* with the preceding text trimmed and a structured result equal to S.
C1_RoundTripAny == \A r \in Requests : \A e \in RoundTripTable : RoundTrips(r, e)

\* C1, amended: the round trip holds when the preceding text contains
\* neither marker and the serialization of S does not contain [JSON_END];
\* elements and fields come back in their order.
C1_RoundTripMarkerFree == \A r \in Requests : \A e \in MarkerFreeRoundTrips : RoundTrips(r, e)

\* a round trip of two competitors, one of them with [JSON_START] in a
\* string, after an analysis that has whitespace to trim
C1_Witness ==
  \E e \in MarkerFreeRoundTrips :
    /\ GotText(1) /\ completion[1].text = e.text /\ resp[1].status = 200
    /\ e.analysis # strip(e.analysis)
    /\ Len(Get(e.result, K_top_competitors).val) = 2
    /\ Contains(dumps(e.result), start_marker)

\* C2: a completion text without [JSON_START] is never answered with an
\* analysis and a structured result; the request fails.
C2_NoStartMarkerFails ==
  \A r \in Requests :
    (GotText(r) /\ ~Contains(completion[r].text, start_marker)) => resp[r].status = 500

\* C3: a completion text with [JSON_START] in which [JSON_END] is absent or
\* first occurs before [JSON_START] is answered with a failure.
C3_MisplacedEndMarkerFails ==
  \A r \in Requests :
    (GotText(r) /\ Contains(completion[r].text, start_marker) /\ ~WellOrdered(completion[r].text))
      => resp[r].status = 500

\* C4: when the text between well-ordered markers is valid JSON that does
\* not match the StructuredResult shape, the request fails: no 200 response
\* carries such a structured_data.
C4_SchemaEnforced ==
  \A r \in Requests :
    (/\ GotText(r) /\ WellOrdered(completion[r].text)
     /\ loads(Between(completion[r].text)).ok
     /\ ~ConformsToSchema(loads(Between(completion[r].text)).val))
      => resp[r].status # 200

\* no completion call has been made for r and r, if answered, was answered 422
NoCall(r) == calls[r] = 0 /\ (pc[r] = "done" => resp[r].status = 422)

C7_NoMarkerInOutput ==
  \A r \in Requests :
    (Answered(r) /\ resp[r].status = 200) => MarkerFree(resp[r].generated_output)

\* C8: while the completion call of one request is outstanding, another
\* request that has been received can take its next step.
C8_HandlerYields ==
  \A r1, r2 \in Requests :
    (r1 # r2 /\ pc[r1] = "calling" /\ pc[r2] \in {"received", "validated"})
      => ENABLED (Validate(r2) \/ StartCall(r2))

FeedbackOf(b) ==
  IF b.current_prompt_data.present THEN b.current_prompt_data.user_feedback ELSE <<>>

\* C9, as stated: the user prompt contains company_name, and contains the
\* feedback clause followed by the feedback iff the feedback is non-empty;
\* the feedback is current_prompt_data.user_feedback when supplied, else "".
C9_PromptContainsClause ==
  \A r \in Requests :
    calls[r] > 0 =>
      /\ Contains(prompt[r], body[r].company_name.val)
      /\ Contains(prompt[r], FeedbackClause \o feedback[r]) <=> feedback[r] # <<>>
      /\ feedback[r] = FeedbackOf(body[r])

\* C9, amended: the user prompt contains company_name, and ends with the
\* feedback clause followed by the feedback iff the feedback is non-empty;
\* the feedback is current_prompt_data.user_feedback when supplied, else "".
C9_PromptEndsWithClause ==
  \A r \in Requests :
    calls[r] > 0 =>
      /\ Contains(prompt[r], body[r].company_name.val)
      /\ EndsWith(prompt[r], FeedbackClause \o feedback[r]) <=> feedback[r] # <<>>
      /\ feedback[r] = FeedbackOf(body[r])

\* a prompt built for Acme with the feedback of current_prompt_data
C9_Witness ==
  /\ calls[1] > 0 /\ body[1].company_name.val = Acme
  /\ body[1].current_prompt_data.present /\ feedback[1] = BeBrief
  /\ EndsWith(prompt[1], FeedbackClause \o BeBrief)

\* C10: the failure reported for invalid JSON between well-ordered markers
\* can be told from the failure reported for missing or misordered markers.
C10_ParseErrorDistinct ==
  \A r1, r2 \in Requests :
    (/\ GotText(r1) /\ ~WellOrdered(completion[r1].text) /\ resp[r1].status = 500
     /\ GotText(r2) /\ WellOrdered(completion[r2].text)
     /\ ~loads(Between(completion[r2].text)).ok)
      => resp[r1] # resp[r2]

====
